---------------------------- MODULE Spec2Model ----------------------------
(***************************************************************************)
(* Lead generation system (src/app.py): the Justdial extraction pipeline   *)
(* scrape_justdial and the Streamlit session around it.                    *)
(*                                                                         *)
(* Text is modelled as a sequence of one-character strings, so that the    *)
(* string operations of the code (strip, lower, replace, slicing, regular  *)
(* expression search, substring tests) are computed and not assumed.       *)
(* An optional value (None or a value) is a sequence of length 0 or 1.     *)
(***************************************************************************)
EXTENDS Integers, Sequences, FiniteSets, TLC

VARIABLES
    keyword,          \* text of the "Search Keyword" input
    location,         \* text of the "Location" input
    num_results,      \* value of the "Number of Results" slider
    extracted_data,   \* st.session_state.extracted_data: <<>> is None, <<df>> a DataFrame
    response,         \* what the directory site answers to the GET of the call under study
    ret,              \* <<>>: scrape_justdial not called in this script run; <<r>>: its outcome
    download_button,  \* <<>>: the disabled button; <<[file_name, data]>>: the file it offers
    last_request      \* history: <<[keyword, location]>> of the call that set extracted_data

vars == <<keyword, location, num_results, extracted_data, response, ret,
          download_button, last_request>>

(***************************************************************************)
(* Bounds of the model.                                                    *)
(***************************************************************************)
\* longest page (number of candidate elements) in the cascade/count runs
MaxFragments == 4
\* largest slider value explored (the slider itself goes up to 20)
MaxResults == 4
\* longest page in the field-resolution runs
MaxFieldFragments == 2
\* longest page the site returns in the session runs
MaxSessionFragments == 2

(***************************************************************************)
(* Program constants.                                                      *)
(***************************************************************************)
MinResults == 3
DefaultResults == 10
EmailNameLen == 15
MinPhoneRun == 10
MinNameLen == 2
MaxSocialLinks == 2
StatusOK == 200

Min(a, b) == IF a < b THEN a ELSE b

(***************************************************************************)
(* Python string operations on character sequences.                        *)
(***************************************************************************)
UpperCase == <<"A", "B", "C", "D", "E", "F", "G", "H", "I", "J", "K", "L", "M",
               "N", "O", "P", "Q", "R", "S", "T", "U", "V", "W", "X", "Y", "Z">>
LowerCase == <<"a", "b", "c", "d", "e", "f", "g", "h", "i", "j", "k", "l", "m",
               "n", "o", "p", "q", "r", "s", "t", "u", "v", "w", "x", "y", "z">>

\* str.lower() on one character
LowerChar(c) ==
    IF \E i \in 1..Len(UpperCase) : UpperCase[i] = c
    THEN LowerCase[CHOOSE i \in 1..Len(UpperCase) : UpperCase[i] = c]
    ELSE c

\* str.lower()
lower(s) == [i \in 1..Len(s) |-> LowerChar(s[i])]

\* str.replace(old, new) for a one-character old and any text new
RECURSIVE replace(_, _, _)
replace(s, old, new) ==
    IF s = <<>> THEN <<>>
    ELSE (IF Head(s) = old THEN new ELSE <<Head(s)>>) \o replace(Tail(s), old, new)

\* the characters \s matches and str.strip() removes
IsSpace(c) == c \in {" ", "\t", "\n"}

\* the characters \d matches
IsDigit(c) == c \in {"0", "1", "2", "3", "4", "5", "6", "7", "8", "9"}

RECURSIVE lstrip(_)
lstrip(s) ==
    IF s # <<>> /\ IsSpace(Head(s)) THEN lstrip(Tail(s)) ELSE s

RECURSIVE rstrip(_)
rstrip(s) ==
    IF s # <<>> /\ IsSpace(s[Len(s)]) THEN rstrip(SubSeq(s, 1, Len(s) - 1)) ELSE s

\* str.strip()
strip(s) == rstrip(lstrip(s))

\* s[:n]
SliceTo(s, n) == SubSeq(s, 1, Min(n, Len(s)))

\* sub in s
Contains(sub, s) ==
    \E i \in 1..(Len(s) - Len(sub) + 1) : SubSeq(s, i, i + Len(sub) - 1) = sub

\* sep.join(parts)
RECURSIVE join(_, _)
join(sep, parts) ==
    IF parts = <<>> THEN <<>>
    ELSE IF Len(parts) = 1 THEN parts[1]
    ELSE parts[1] \o sep \o join(sep, Tail(parts))

\* re.sub(r'\s+', ' ', s)
RECURSIVE collapse_whitespace(_)
collapse_whitespace(s) ==
    IF s = <<>> THEN <<>>
    ELSE IF IsSpace(Head(s)) THEN <<" ">> \o collapse_whitespace(lstrip(s))
    ELSE <<Head(s)>> \o collapse_whitespace(Tail(s))

\* the character class [\d\s\-\+\(\)]
IsPhoneChar(c) == IsDigit(c) \/ IsSpace(c) \/ c \in {"-", "+", "(", ")"}

\* length of the run of phone characters that starts at position i of s
RECURSIVE PhoneRun(_, _)
PhoneRun(s, i) ==
    IF i <= Len(s) /\ IsPhoneChar(s[i]) THEN 1 + PhoneRun(s, i + 1) ELSE 0

\* re.search(r'[\d\s\-\+\(\)]{10,}', s): <<>> for no match, else <<match.group()>>;
\* the leftmost start from which at least MinPhoneRun phone characters follow,
\* extended greedily to the end of that run
phone_search(s) ==
    LET starts == {i \in 1..Len(s) : PhoneRun(s, i) >= MinPhoneRun}
    IN  IF starts = {} THEN <<>>
        ELSE LET i == CHOOSE j \in starts : \A k \in starts : j <= k
             IN  <<SubSeq(s, i, i + PhoneRun(s, i) - 1)>>

\* the sentinel "N/A"
NA == <<"N", "/", "A">>

(***************************************************************************)
(* Parsed markup.  A listing fragment records, for every selector the code *)
(* applies to it, the raw texts of the tags that selector matches, in      *)
(* document order; a_href holds the href of every <a href> in document     *)
(* order; raises says that resolving its fields raises an exception.       *)
(***************************************************************************)
\* Tag.get_text(strip=True) of a tag holding one text node
get_text(raw) == strip(raw)

\* listing.find(...): the first matching tag, <<>> for None
find(tags) == IF tags = <<>> THEN <<>> ELSE <<Head(tags)>>

\* Python's  a or b  on optional tags (a Tag is always truthy)
Or(a, b) == IF a # <<>> THEN a ELSE b

HTTP == <<"h", "t", "t", "p">>
JUSTDIAL == <<"j", "u", "s", "t", "d", "i", "a", "l">>
FACEBOOK == <<"f", "a", "c", "e", "b", "o", "o", "k", ".", "c", "o", "m">>
INSTAGRAM == <<"i", "n", "s", "t", "a", "g", "r", "a", "m", ".", "c", "o", "m">>

\* lines 76-86: span.jcn or a.jcn, then, only while the name is still "N/A", h2 or h3
resolve_name(listing) ==
    LET name_tag == Or(find(listing.span_jcn), find(listing.a_jcn))
        name     == IF name_tag # <<>> THEN get_text(name_tag[1]) ELSE NA
        alt_tag  == Or(find(listing.h2), find(listing.h3))
    IN  IF name = NA /\ alt_tag # <<>> THEN get_text(alt_tag[1]) ELSE name

\* lines 88-95: p.contact-info or span.mobilesv, first regex match, stripped
resolve_phone(listing) ==
    LET phone_tag == Or(find(listing.p_contact_info), find(listing.span_mobilesv))
    IN  IF phone_tag = <<>> THEN NA
        ELSE LET phone_match == phone_search(get_text(phone_tag[1]))
             IN  IF phone_match # <<>> THEN strip(phone_match[1]) ELSE NA

\* lines 97-103: p.address or span.mrehover, whitespace runs collapsed
resolve_address(listing) ==
    LET addr_tag == Or(find(listing.p_address), find(listing.span_mrehover))
    IN  IF addr_tag = <<>> THEN NA ELSE collapse_whitespace(get_text(addr_tag[1]))

\* lines 105-111: the first <a> whose href contains "http"; kept unless it
\* contains "justdial"
resolve_website(listing) ==
    LET web_tag == find(SelectSeq(listing.a_href, LAMBDA h : Contains(HTTP, h)))
    IN  IF web_tag # <<>> /\ web_tag[1] # <<>> /\ ~Contains(JUSTDIAL, web_tag[1])
        THEN web_tag[1]
        ELSE NA

\* a slip in the order of the operations of line 119: sliced before the replacements
make_email_slice_first(name) ==
    IF name # NA
    THEN <<"i", "n", "f", "o", "@">>
         \o replace(replace(SliceTo(lower(name), EmailNameLen), " ", <<>>), "-", <<>>)
         \o <<".", "c", "o", "m">>
    ELSE NA

\* lines 116-120: the generated email
make_email(name) ==
    IF name # NA
    THEN <<"i", "n", "f", "o", "@">>
         \o SliceTo(replace(replace(lower(name), " ", <<>>), "-", <<>>), EmailNameLen)
         \o <<".", "c", "o", "m">>
    ELSE NA

\* lines 125-130: one entry per link to facebook.com, else to instagram.com
RECURSIVE social_links(_)
social_links(hrefs) ==
    IF hrefs = <<>> THEN <<>>
    ELSE (IF Contains(FACEBOOK, Head(hrefs))
          THEN << <<"F", "a", "c", "e", "b", "o", "o", "k", ":", " ">> \o Head(hrefs) >>
          ELSE IF Contains(INSTAGRAM, Head(hrefs))
          THEN << <<"I", "n", "s", "t", "a", "g", "r", "a", "m", ":", " ">> \o Head(hrefs) >>
          ELSE <<>>)
         \o social_links(Tail(hrefs))

\* lines 122-133
resolve_social(listing) ==
    LET links == social_links(listing.a_href)
    IN  IF links # <<>> THEN join(<<" ", "|", " ">>, SliceTo(links, MaxSocialLinks)) ELSE NA

\* a slip in line 136: the length test left out
accepted_any_name(name) == name # NA

\* line 136: only add if we have at least a name
accepted(name) == name # NA /\ Len(name) > MinNameLen

\* lines 75-155, one iteration of the loop: <<>> when the fragment is skipped
\* (an exception, or no usable name), else <<business>>
process_listing(listing, kw) ==
    IF listing.raises THEN <<>>
    ELSE LET name == resolve_name(listing)
         IN  IF accepted(name)
             THEN << [BusinessName        |-> name,
                      EmailID             |-> make_email(name),
                      PhoneNumber         |-> resolve_phone(listing),
                      LocationAddress     |-> resolve_address(listing),
                      BusinessCategory    |-> kw,
                      WebsiteURL          |-> resolve_website(listing),
                      SocialMediaProfiles |-> resolve_social(listing)] >>
             ELSE <<>>

\* lines 74-152: the iterations over sel from position i on; processed counts the
\* iterations entered
RECURSIVE loop(_, _, _, _, _, _)
loop(sel, i, max_results, kw, businesses, count) ==
    IF i > Len(sel) THEN [businesses |-> businesses, processed |-> Len(sel)]
    ELSE LET r == process_listing(sel[i], kw)
         IN  IF r = <<>> THEN loop(sel, i + 1, max_results, kw, businesses, count)
             ELSE IF count + 1 >= max_results
                  THEN [businesses |-> Append(businesses, r[1]), processed |-> i]
                  ELSE loop(sel, i + 1, max_results, kw, Append(businesses, r[1]), count + 1)

\* the cap forgotten: every listing is visited and the count never stops the loop
extract_uncapped(listings, max_results, kw) ==
    loop(listings, 1, Len(listings) + 1, kw, <<>>, 0)

\* lines 73-152: the loop over listings[:max_results]
extract(listings, max_results, kw) ==
    loop(SliceTo(listings, max_results), 1, max_results, kw, <<>>, 0)

\* the class pattern of line 69
LISTING == <<"l", "i", "s", "t", "i", "n", "g">>
STORE == <<"s", "t", "o", "r", "e">>
BUSINESS == <<"b", "u", "s", "i", "n", "e", "s", "s">>
CNTANR == <<"c", "n", "t", "a", "n", "r">>
STORE_DETAILS == <<"s", "t", "o", "r", "e", "-", "d", "e", "t", "a", "i", "l", "s">>

\* soup.find_all('li', class_='cntanr')
find_primary(page) == SelectSeq(page, LAMBDA e : e.tag = "li" /\ e.class = CNTANR)

\* soup.find_all('div', class_='store-details')
find_store_details(page) ==
    SelectSeq(page, LAMBDA e : e.tag = "div" /\ e.class = STORE_DETAILS)

\* soup.find_all('div', {'class': re.compile('.*listing.*|.*store.*|.*business.*')})
find_pattern(page) ==
    SelectSeq(page, LAMBDA e : e.tag = "div" /\ (Contains(LISTING, e.class)
                                                   \/ Contains(STORE, e.class)
                                                   \/ Contains(BUSINESS, e.class)))

\* a cascade that does not stop: the alternative selector is run whatever the
\* primary found, and its result wins when it is not empty
select_listings_no_stop(page) ==
    LET first  == find_primary(page)
        second == find_store_details(page)
        third  == find_pattern(page)
    IN  IF second # <<>>
        THEN [listings |-> second, consulted |-> <<"primary", "store-details">>,
              warnings |-> <<>>]
        ELSE IF first # <<>>
        THEN [listings |-> first, consulted |-> <<"primary", "store-details">>,
              warnings |-> <<>>]
        ELSE [listings |-> third, consulted |-> <<"primary", "store-details", "pattern">>,
              warnings |-> <<"warning: trying alternative", "warning: another method">>]

\* lines 59-69: the selector cascade; consulted lists the find_all calls made
select_listings(page) ==
    LET first == find_primary(page)
    IN  IF first # <<>>
        THEN [listings |-> first, consulted |-> <<"primary">>, warnings |-> <<>>]
        ELSE LET second == find_store_details(page)
             IN  IF second # <<>>
                 THEN [listings |-> second, consulted |-> <<"primary", "store-details">>,
                       warnings |-> <<"warning: trying alternative">>]
                 ELSE [listings |-> find_pattern(page),
                       consulted |-> <<"primary", "store-details", "pattern">>,
                       warnings |-> <<"warning: trying alternative",
                                      "warning: another method">>]

\* lines 35-36: lower-cased, spaces to hyphens
formatted(text) == replace(lower(text), " ", <<"-">>)

\* line 46: the URL, as its two path segments after https://www.justdial.com/
url(kw, loc) == <<formatted(loc), formatted(kw)>>

\* a slip in line 53: only server errors are rejected
status_rejected_5xx(status_code) == status_code >= 500

\* line 53
status_rejected(status_code) == status_code # StatusOK

\* lines 27-165: the outcome of one call.  df is the DataFrame returned (<<>> is
\* the empty DataFrame), msgs the st.* calls in order, requests the GETs issued,
\* consulted the selectors run, listings the selected fragments, processed the
\* number of loop iterations entered
scrape_justdial(kw, loc, max_results, resp) ==
    LET base == [df |-> <<>>, msgs |-> <<"info: searching">>, requests |-> <<url(kw, loc)>>,
                 consulted |-> <<>>, listings |-> <<>>, processed |-> 0]
    IN  IF resp.raised
        THEN [base EXCEPT !.msgs = @ \o <<"error: during scraping">>]
        ELSE IF status_rejected(resp.status_code)
        THEN [base EXCEPT !.msgs = @ \o <<"error: failed to fetch">>]
        ELSE LET sel == select_listings(resp.page)
                 out == extract(sel.listings, max_results, kw)
             IN  [base EXCEPT
                    !.df = out.businesses,
                    !.msgs = @ \o sel.warnings \o <<"info: found listings">>
                               \o [i \in 1..Len(out.businesses) |-> "text: extracted"]
                               \o (IF out.businesses # <<>> THEN <<>>
                                   ELSE <<"error: no valid business data">>),
                    !.consulted = sel.consulted,
                    !.listings = sel.listings,
                    !.processed = out.processed]


(***************************************************************************)
(* The session: one script run of app.py per user action.                  *)
(***************************************************************************)
\* a slip in lines 237-238: the result is stored whether or not it is empty
store_result_always(data, df) == <<df>>

\* lines 237-238: session_state.extracted_data after the call returned df
store_result(data, df) == IF df # <<>> THEN <<df>> ELSE data

\* line 300: clean_keyword
clean_keyword(kw) ==
    IF kw # <<>> THEN lower(replace(kw, " ", <<"_">>)) ELSE <<"l", "e", "a", "d", "s">>

\* line 301: the location part of the file name
clean_location(loc) == replace(lower(loc), " ", <<"_">>)

\* line 298: DataFrame.to_csv(index=False), as the header row and the data rows
to_csv(df) ==
    [header |-> <<"Business Name", "Email ID", "Phone Number", "Location / Address",
                  "Business Category", "Website URL", "Social Media Profiles">>,
     rows   |-> [i \in 1..Len(df) |->
                   <<df[i].BusinessName, df[i].EmailID, df[i].PhoneNumber,
                     df[i].LocationAddress, df[i].BusinessCategory, df[i].WebsiteURL,
                     df[i].SocialMediaProfiles>>]]

\* lines 296-319: the download button of this script run; the file name is kept as
\* its keyword and location parts (real_leads_<keyword>_<location>_<timestamp>.csv)
export_section(kw, loc, data) ==
    IF data # <<>>
    THEN << [file_name |-> [keyword |-> clean_keyword(kw), location |-> clean_location(loc)],
             data      |-> to_csv(data[1])] >>
    ELSE <<>>

(***************************************************************************)
(* Inputs.                                                                 *)
(***************************************************************************)
\* " Zed Spa "
ZED == <<" ", "Z", "e", "d", " ", "S", "p", "a", " ">>
\* "Ace Gym"
ACE == <<"A", "c", "e", " ", "G", "y", "m">>
\* "Inn"
INN == <<"I", "n", "n">>
\* "Pub"
PUB == <<"P", "u", "b">>
\* "Al"
AL == <<"A", "l">>
\* "Blue-Sky Cafe And Bar"
LONG ==
    <<"B", "l", "u", "e", "-", "S", "k", "y", " ", "C", "a", "f", "e", " ", "A", "n",
      "d", " ", "B", "a", "r">>
\* "Call: +91 98765-43210"
P_PLAIN ==
    <<"C", "a", "l", "l", ":", " ", "+", "9", "1", " ", "9", "8", "7", "6", "5", "-",
      "4", "3", "2", "1", "0">>
\* "Ph 12345"
P_SHORT == <<"P", "h", " ", "1", "2", "3", "4", "5">>
\* "Call     12345 now"
P_PADDED ==
    <<"C", "a", "l", "l", " ", " ", " ", " ", " ", "1", "2", "3", "4", "5", " ", "n",
      "o", "w">>
\* "(022) 2345 6789"
P_PAREN == <<"(", "0", "2", "2", ")", " ", "2", "3", "4", "5", " ", "6", "7", "8", "9">>
\* "98765\t43210"
P_TAB == <<"9", "8", "7", "6", "5", "\t", "4", "3", "2", "1", "0">>
\* "9876543210"
M_PLAIN == <<"9", "8", "7", "6", "5", "4", "3", "2", "1", "0">>
\* " 12  MG Road,\t Goa "
A_ROAD ==
    <<" ", "1", "2", " ", " ", "M", "G", " ", "R", "o", "a", "d", ",", "\t", " ",
      "G", "o", "a", " ">>
\* "4 Sea Lane"
A_LANE == <<"4", " ", "S", "e", "a", " ", "L", "a", "n", "e">>
\* "http://justdial.com/zed"
H_JD ==
    <<"h", "t", "t", "p", ":", "/", "/", "j", "u", "s", "t", "d", "i", "a", "l", ".",
      "c", "o", "m", "/", "z", "e", "d">>
\* "https://zedspa.in"
H_EXT ==
    <<"h", "t", "t", "p", "s", ":", "/", "/", "z", "e", "d", "s", "p", "a", ".", "i",
      "n">>
\* "/about"
H_REL == <<"/", "a", "b", "o", "u", "t">>
\* "http://facebook.com/zed"
H_FB ==
    <<"h", "t", "t", "p", ":", "/", "/", "f", "a", "c", "e", "b", "o", "o", "k", ".",
      "c", "o", "m", "/", "z", "e", "d">>
\* "https://instagram.com/zed"
H_IG ==
    <<"h", "t", "t", "p", "s", ":", "/", "/", "i", "n", "s", "t", "a", "g", "r", "a",
      "m", ".", "c", "o", "m", "/", "z", "e", "d">>
\* "/go?u=http://zed.in"
H_REDIR ==
    <<"/", "g", "o", "?", "u", "=", "h", "t", "t", "p", ":", "/", "/", "z", "e", "d",
      ".", "i", "n">>
\* "Spa"
K_SPA == <<"S", "p", "a">>
\* "Tea Bar"
K_TEA == <<"T", "e", "a", " ", "B", "a", "r">>
\* "Goa"
L_GOA == <<"G", "o", "a">>
\* "New Delhi"
L_DELHI == <<"N", "e", "w", " ", "D", "e", "l", "h", "i">>

\* what the user can type into the two text inputs (<<>> is the empty input)
Keywords == {<<>>, K_SPA, K_TEA}
Locations == {<<>>, L_GOA, L_DELHI}

\* the slider: 3 .. 20 in the program, explored up to MaxResults, and its default
NumResults == MinResults..MaxResults
SliderValues == NumResults \cup {DefaultResults}

\* an <li class="cntanr"> with no marker inside
Blank ==
    [tag |-> "li", class |-> CNTANR, span_jcn |-> <<>>, a_jcn |-> <<>>, h2 |-> <<>>,
     h3 |-> <<>>, p_contact_info |-> <<>>, span_mobilesv |-> <<>>, p_address |-> <<>>,
     span_mrehover |-> <<>>, a_href |-> <<>>, raises |-> FALSE]

\* the same with a name in <span class="jcn">
Named == [Blank EXCEPT !.span_jcn = <<ZED>>]

\* elements of the pages of the cascade/count runs: listings of the three kinds the
\* selectors look for, with and without a usable name, and an element none selects
ExtractElements ==
    { Named,
      Blank,
      [Named EXCEPT !.raises = TRUE],
      [Blank EXCEPT !.tag = "div", !.class = STORE_DETAILS, !.a_jcn = <<ACE>>],
      [Blank EXCEPT !.tag = "div", !.class = <<"a", "d">> \o LISTING, !.h2 = <<INN>>],
      [Blank EXCEPT !.tag = "div", !.class = <<"n", "a", "v">>, !.h3 = <<PUB>>] }

\* fragments that differ in the name markers
NameFragments ==
    { [Blank EXCEPT !.span_jcn = n[1], !.a_jcn = n[2], !.h2 = n[3], !.h3 = n[4]] :
        n \in { << <<ZED>>, <<>>, <<>>, <<>> >>,
                << <<>>, <<ACE>>, <<>>, <<>> >>,
                << <<ZED>>, <<ACE>>, <<>>, <<>> >>,
                << <<>>, <<>>, <<INN>>, <<>> >>,
                << <<>>, <<>>, <<>>, <<PUB>> >>,
                << <<>>, <<>>, <<INN>>, <<PUB>> >>,
                << <<NA>>, <<>>, <<INN>>, <<>> >>,
                << <<NA>>, <<>>, <<>>, <<>> >>,
                << << <<>> >>, <<>>, <<INN>>, <<>> >>,
                << <<AL>>, <<>>, <<>>, <<>> >>,
                << <<>>, <<AL>>, <<>>, <<>> >>,
                << <<>>, <<>>, <<AL>>, <<>> >>,
                << <<LONG>>, <<>>, <<>>, <<>> >>,
                << <<>>, <<>>, <<>>, <<>> >> } }

\* fragments that differ in the phone markers
PhoneFragments ==
    { [Named EXCEPT !.p_contact_info = p[1], !.span_mobilesv = p[2]] :
        p \in { << <<P_PLAIN>>, <<>> >>, << <<P_SHORT>>, <<>> >>, << <<P_PADDED>>, <<>> >>,
                << <<P_PAREN>>, <<>> >>, << <<P_TAB>>, <<>> >>, << <<>>, <<M_PLAIN>> >>,
                << <<P_SHORT>>, <<M_PLAIN>> >> } }

\* fragments that differ in the address markers
AddressFragments ==
    { [Named EXCEPT !.p_address = <<A_ROAD>>], [Named EXCEPT !.span_mrehover = <<A_LANE>>] }

\* fragments that differ in their links
LinkFragments ==
    { [Named EXCEPT !.a_href = l] :
        l \in { <<H_EXT>>, <<H_JD>>, <<H_JD, H_EXT>>, <<H_REL, H_EXT>>, <<H_REDIR>>,
                <<H_REL, H_FB, H_IG, H_FB>> } }

FieldFragments ==
    NameFragments \cup PhoneFragments \cup AddressFragments \cup LinkFragments
    \cup {[Named EXCEPT !.raises = TRUE]}

SessionElements == {Named, Blank}

\* the pages of at most n elements
Pages(elements, n) == UNION {[1..k -> elements] : k \in 0..n}

\* the answers of the site: a status with a body, or a transport error
Responses(pages) ==
    {[raised |-> FALSE, status_code |-> c, page |-> p] : c \in {StatusOK, 404}, p \in pages}
    \cup {[raised |-> TRUE, status_code |-> 0, page |-> <<>>]}

\* no call under study
NoResponse == [raised |-> FALSE, status_code |-> 0, page |-> <<>>]

(***************************************************************************)
(* One call of scrape_justdial on given inputs.                            *)
(***************************************************************************)
\* a call scrape_justdial(keyword, location, num_results) about to be made
CallInit(keywords, locations, results, responses) ==
    /\ keyword \in keywords
    /\ location \in locations
    /\ num_results \in results
    /\ response \in responses
    /\ extracted_data = <<>>
    /\ ret = <<>>
    /\ download_button = <<>>
    /\ last_request = <<>>

\* calls on pages that differ in the kind and number of their listings
InitExtract ==
    CallInit({K_SPA}, {L_GOA}, NumResults, Responses(Pages(ExtractElements, MaxFragments)))

\* calls on pages that differ in the markers of their listings
InitFields ==
    CallInit({K_SPA, K_TEA}, {L_DELHI}, {DefaultResults},
             Responses(Pages(FieldFragments, MaxFieldFragments)))

\* line 235: the call runs to its return
Scrape ==
    /\ ret = <<>>
    /\ ret' = <<scrape_justdial(keyword, location, num_results, response)>>
    /\ UNCHANGED <<keyword, location, num_results, extracted_data, response,
                   download_button, last_request>>

SpecExtract == InitExtract /\ [][Scrape]_vars

SpecFields == InitFields /\ [][Scrape]_vars

(***************************************************************************)
(* The session.                                                            *)
(***************************************************************************)
\* lines 20-22 and the widgets' initial values, after the first script run
Init ==
    /\ keyword = <<>>
    /\ location = <<>>
    /\ num_results = DefaultResults
    /\ extracted_data = <<>>
    /\ response = NoResponse
    /\ ret = <<>>
    /\ download_button = <<>>
    /\ last_request = <<>>

\* a script run in which the Start button was not clicked: lines 228-242 are
\* skipped, the export section is rendered from the widgets' current values
Rerun(kw, loc) ==
    /\ ret' = <<>>
    /\ download_button' = export_section(kw, loc, extracted_data)
    /\ UNCHANGED <<extracted_data, response, last_request>>

\* lines 197-201: the user edits the keyword
EditKeyword ==
    \E kw \in Keywords \ {keyword} :
        /\ keyword' = kw
        /\ Rerun(kw, location)
        /\ UNCHANGED <<location, num_results>>

\* lines 204-208: the user edits the location
EditLocation ==
    \E loc \in Locations \ {location} :
        /\ location' = loc
        /\ Rerun(keyword, loc)
        /\ UNCHANGED <<keyword, num_results>>

\* lines 210-216: the user moves the slider
MoveSlider ==
    \E n \in SliderValues \ {num_results} :
        /\ num_results' = n
        /\ Rerun(keyword, location)
        /\ UNCHANGED <<keyword, location>>

\* lines 228-242: the user clicks Start Extraction
StartExtraction ==
    /\ IF keyword = <<>> \/ location = <<>>
       THEN /\ ret' = <<>>
            /\ UNCHANGED <<extracted_data, last_request>>
       ELSE \E resp \in Responses(Pages(SessionElements, MaxSessionFragments)) :
              LET r == scrape_justdial(keyword, location, num_results, resp)
              IN  /\ ret' = <<r>>
                  /\ extracted_data' = store_result(extracted_data, r.df)
                  /\ last_request' =
                        IF extracted_data' # extracted_data
                        THEN <<[keyword |-> keyword, location |-> location]>>
                        ELSE last_request
    /\ download_button' = export_section(keyword, location, extracted_data')
    /\ UNCHANGED <<keyword, location, num_results, response>>

\* lines 305-311: the user clicks the enabled download button and is handed the
\* file it offers; the script then runs again
Download ==
    /\ download_button # <<>>
    /\ Rerun(keyword, location)
    /\ UNCHANGED <<keyword, location, num_results>>

Next == EditKeyword \/ EditLocation \/ MoveSlider \/ StartExtraction \/ Download

Spec == Init /\ [][Next]_vars


(***************************************************************************)
(* Properties.                                                             *)
(***************************************************************************)
\* the call under study has returned
Returned == ret # <<>>

\* the site answered the call under study with status 200
Fetched == ~response.raised /\ response.status_code = StatusOK

\* a fragment whose fields resolve without an exception to a usable name
Acceptable(listing) ==
    /\ ~listing.raises
    /\ resolve_name(listing) # NA
    /\ Len(resolve_name(listing)) > MinNameLen

\* the fragments the records of the call under study come from, in order
RecordSources == SelectSeq(SliceTo(ret[1].listings, num_results), Acceptable)

\* C1: the ResultSet scrape_justdial returns holds at most maxResults records,
\* whatever the page, the names and the per-fragment faults.
C1_AtMostMaxResults == Returned => Len(ret[1].df) <= num_results

\* C1 witness: more fragments were selected than maxResults and the ResultSet is
\* filled to exactly maxResults.
C1_Witness ==
    /\ Returned
    /\ Len(ret[1].listings) > num_results
    /\ Len(ret[1].df) = num_results

\* C2: fragments without a usable name are not counted against maxResults: the
\* ResultSet holds maxResults records when the selected list has at least
\* maxResults acceptable fragments, wherever they sit, and one record per
\* acceptable fragment otherwise.  (A fragment that raises counts as not
\* acceptable here, which is the reading most favourable to the claim.)
C2_SkippedNotCounted ==
    (Returned /\ Fetched) =>
        LET usable == Len(SelectSeq(ret[1].listings, Acceptable))
        IN  Len(ret[1].df) = Min(usable, num_results)

\* C3: on a non-200 status the call yields an empty ResultSet and a fetch-failure
\* message, runs no selector, processes no fragment and issues no second GET.
C3_Non200Halts ==
    (Returned /\ ~response.raised /\ response.status_code # StatusOK) =>
        /\ ret[1].df = <<>>
        /\ \E i \in 1..Len(ret[1].msgs) : ret[1].msgs[i] = "error: failed to fetch"
        /\ ret[1].consulted = <<>>
        /\ ret[1].processed = 0
        /\ Len(ret[1].requests) = 1

\* C3 witness: a 404 whose body does hold primary listings with usable names.
C3_Witness ==
    /\ Returned
    /\ ~response.raised
    /\ response.status_code = 404
    /\ \E i \in 1..Len(response.page) :
          response.page[i].tag = "li" /\ Acceptable(response.page[i])
    /\ ret[1].df = <<>>

\* "looks like an absolute HTTP(S) URL", read as the code tests it (the reading most
\* favourable to C4): the target contains "http"
LooksAbsoluteHttp(href) == Contains(HTTP, href)

\* the website C4 describes: the first absolute HTTP(S) link outside the host's domain
ClaimedWebsite(listing) ==
    LET outside == SelectSeq(listing.a_href,
                             LAMBDA h : LooksAbsoluteHttp(h) /\ ~Contains(JUSTDIAL, h))
    IN  IF outside # <<>> THEN outside[1] ELSE NA

\* C4: the website of a record is the first link of its fragment that is an
\* absolute HTTP(S) URL and does not contain the host's domain, and "N/A" only
\* when the fragment has no such link.
C4_FirstExternalLink ==
    (Returned /\ Len(ret[1].df) = Len(RecordSources)) =>
        \A j \in 1..Len(ret[1].df) :
            ret[1].df[j].WebsiteURL = ClaimedWebsite(RecordSources[j])

\* C5: the phone of every record is "N/A" or at least 10 characters long and made
\* of digits, spaces, hyphens, plus signs and parentheses only.  (Any white space
\* counts as a space here, which is the reading most favourable to the claim.)
C5_PhoneShape ==
    Returned =>
        \A j \in 1..Len(ret[1].df) :
            LET phone == ret[1].df[j].PhoneNumber
            IN  \/ phone = NA
                \/ /\ Len(phone) >= 10
                   /\ \A k \in 1..Len(phone) :
                         \/ IsDigit(phone[k])
                         \/ IsSpace(phone[k])
                         \/ phone[k] \in {"-", "+", "(", ")"}

\* C6: every record has a businessName that is not "N/A" and is longer than 2
\* characters, whichever marker resolved it.
C6_NameUsable ==
    Returned =>
        \A j \in 1..Len(ret[1].df) :
            /\ ret[1].df[j].BusinessName # NA
            /\ Len(ret[1].df[j].BusinessName) > 2

\* C6 witness: a fragment whose heading gives a 2-character name was dropped and a
\* fragment named by its h3 heading was kept.
C6_Witness ==
    /\ Returned
    /\ Len(ret[1].listings) = 2
    /\ ret[1].listings[1].h2 = <<AL>>
    /\ Len(ret[1].df) = 1
    /\ ret[1].df[1].BusinessName = PUB

\* the three strategies, in the order of the cascade
Cascade == <<"primary", "store-details", "pattern">>

\* C7: the selectors are consulted in the order primary, fallback 1, fallback 2,
\* stopping at the first that finds something: with a primary match no fallback is
\* consulted and the fragments are the primary's; fallback 2 is consulted only
\* when the primary and fallback 1 both find nothing.
C7_CascadeShortCircuits ==
    (Returned /\ Fetched) =>
        LET primary  == SelectSeq(response.page,
                                  LAMBDA e : e.tag = "li" /\ e.class = CNTANR)
            fallback == SelectSeq(response.page,
                                  LAMBDA e : e.tag = "div" /\ e.class = STORE_DETAILS)
            n        == Len(ret[1].consulted)
        IN  /\ n \in 1..3
            /\ ret[1].consulted = SubSeq(Cascade, 1, n)
            /\ primary # <<>> => (n = 1 /\ ret[1].listings = primary)
            /\ (primary = <<>> /\ fallback # <<>>) => (n = 2 /\ ret[1].listings = fallback)
            /\ n = 3 => (primary = <<>> /\ fallback = <<>>)

\* C7 witness: the primary selector and fallback 1 would both match, with
\* different counts, and only the primary was consulted.
C7_Witness ==
    /\ Returned
    /\ Fetched
    /\ find_primary(response.page) # <<>>
    /\ find_store_details(response.page) # <<>>
    /\ Len(find_primary(response.page)) # Len(find_store_details(response.page))
    /\ ret[1].consulted = <<"primary">>

\* C8: the emailId of every record is "info@", then the first 15 characters of the
\* lower-cased businessName without its spaces and hyphens, then ".com"; so it is
\* never "N/A".
C8_EmailDerived ==
    Returned =>
        \A j \in 1..Len(ret[1].df) :
            LET name     == ret[1].df[j].BusinessName
                stripped == SelectSeq(name, LAMBDA c : c \notin {" ", "-"})
                slug     == SubSeq(lower(stripped), 1, Min(15, Len(stripped)))
            IN  /\ ret[1].df[j].EmailID
                      = <<"i", "n", "f", "o", "@">> \o slug \o <<".", "c", "o", "m">>
                /\ ret[1].df[j].EmailID # NA

\* C8 witness: a record whose name has spaces, a hyphen and more than 15 other
\* characters.
C8_Witness ==
    /\ Returned
    /\ \E j \in 1..Len(ret[1].df) : ret[1].df[j].BusinessName = LONG

\* C9: the keyword and location in the export file name are those of the
\* extraction that produced the stored ResultSet, so the file name's keyword
\* agrees with the Business Category of the exported records.
C9_FileNameMatchesData ==
    download_button # <<>> =>
        /\ last_request # <<>>
        /\ download_button[1].file_name.keyword = clean_keyword(last_request[1].keyword)
        /\ download_button[1].file_name.location = clean_location(last_request[1].location)
        /\ \A j \in 1..Len(download_button[1].data.rows) :
              clean_keyword(download_button[1].data.rows[j][5])
                  = download_button[1].file_name.keyword

\* the stored ResultSet is absent or not empty
StoredNonEmpty == extracted_data = <<>> \/ extracted_data[1] # <<>>

\* the export is offered only for a stored, non-empty ResultSet, row for row
ExportNeedsData ==
    download_button # <<>> =>
        /\ extracted_data # <<>>
        /\ extracted_data[1] # <<>>
        /\ Len(download_button[1].data.rows) = Len(extracted_data[1])

\* the stored ResultSet changes only to the non-empty result of this run's call
StoredChange ==
    extracted_data' # extracted_data =>
        /\ ret' # <<>>
        /\ ret'[1].df # <<>>
        /\ extracted_data' = <<ret'[1].df>>

\* C10: the stored ResultSet changes only when an extraction returns at least one
\* record, and then to exactly that result; a failed extraction and a click with
\* an empty input leave it as it was; it is always absent or non-empty, and the
\* export is offered only with a non-empty ResultSet.
C10_StoredOnlyOnSuccess ==
    /\ [](StoredNonEmpty /\ ExportNeedsData)
    /\ [][StoredChange]_vars

\* C10 witness: a fetch failure after a successful extraction, the stored
\* ResultSet still there.
C10_Witness ==
    /\ extracted_data # <<>>
    /\ ret # <<>>
    /\ ret[1].df = <<>>
    /\ \E i \in 1..Len(ret[1].msgs) : ret[1].msgs[i] = "error: failed to fetch"


=============================================================================
